---- MODULE Spec2Model ----
(***************************************************************************)
(* State-machine model of the PDF ingestion subsystem of Resume-Matcher    *)
(* (scripts/ReadPdf.py, class EnhancedPDFProcessor), of its keyterm        *)
(* scorer (scripts/KeytermsExtraction.py, class EnhancedKeytermExtractor)  *)
(* and of its document processors (scripts/ResumeProcessor.py,             *)
(* scripts/JobDescriptionProcessor.py, run_first.py).                      *)
(*                                                                         *)
(* The specifications of the module:                                       *)
(*   SpecReadPdf    one call of read_pdf on one file, with the page-level  *)
(*                  thread pool of _extract_pages_parallel;                *)
(*   SpecBatch      one run of the generator read_multiple_pdfs over one   *)
(*                  directory, with the file-level thread pool;            *)
(*   SpecPools      one processor used for either of the two;              *)
(*   SpecRelevance  KeytermScore of one term under a domain vocabulary and *)
(*                  under that vocabulary with one more term;              *)
(*   SpecScore      an EnhancedKeytermExtractor and two runs of            *)
(*                  extract_all_keyterms on it;                            *)
(*   SpecPreprocess _preprocess_text applied to a text, and to its result; *)
(*   SpecProcessor  a ResumeProcessor or JobDescriptionProcessor and the    *)
(*                  process() calls on it;                                 *)
(*   SpecDocuments  one call of DocumentProcessor.process_all.             *)
(* Text is a sequence of one-character strings; scores and weights are     *)
(* counted in hundredths, combined scores in ten-thousandths.              *)
(***************************************************************************)
EXTENDS Naturals, Integers, Sequences, FiniteSets, TLC

VARIABLES
    file,        \* read_pdf: the file behind pdf_path
    pc,          \* read_pdf: position of the call
    checksum,    \* read_pdf: local `checksum`
    metadata,    \* read_pdf: local `metadata`
    task,        \* _extract_pages_parallel: state of each submitted future
    consumed,    \* _extract_pages_parallel: futures as_completed has yielded
    pages,       \* _extract_pages_parallel: local list `pages`
    page_log,    \* page numbers logged by "Error extracting page"
    result,      \* read_pdf: the returned dict or the raised exception
    dir,         \* read_multiple_pdfs: the directory on disk
    parallel,    \* read_multiple_pdfs: argument `parallel`
    bpc,         \* read_multiple_pdfs: position of the generator
    pdf_files,   \* read_multiple_pdfs: local `pdf_files`
    processed,   \* read_multiple_pdfs: paths whose result the loop body has handled
    yielded,     \* read_multiple_pdfs: the dicts yielded so far, in order
    file_log,    \* paths logged by "Error processing"
    ftask,       \* read_multiple_pdfs: state of each submitted read_pdf future
    rel_term,    \* KeytermScore: the term that is scored
    rel_signals, \* the five algorithm scores of rel_term
    rel_extras,  \* __init__: argument domain_specific_terms
    rel_added,   \* the term the second vocabulary has in addition
    rel_base,    \* the KeytermScore of rel_term under rel_extras
    rel_plus,    \* the KeytermScore of rel_term under rel_extras and rel_added
    input_text,  \* __init__: argument raw_text
    top_n,       \* self.top_n
    algo,        \* what each scoring algorithm does on self.raw_text
    kpc,         \* position of the extractor
    raw_text,    \* self.raw_text
    domain_terms,    \* self.domain_terms
    keyterm_scores,  \* extract_all_keyterms: local list `keyterm_scores`
    ranked,          \* outcome of the first run of extract_all_keyterms
    ranked_again,    \* outcome of the second run, in a fresh interpreter
    pre_text,    \* _preprocess_text: argument `text`
    pre_once,    \* _preprocess_text(pre_text)
    pre_twice,   \* _preprocess_text(pre_once)
    ppc,         \* how often _preprocess_text has been applied
    proc_class,     \* the class of the processor: ResumeProcessor or JobDescriptionProcessor
    proc_config,    \* self.config: validate_pdf, create_backup
    processed_at,   \* self.processed_at
    error_details,  \* self.error_details
    backups,        \* number of backup files written
    outputs,        \* number of output JSON files written
    returned,       \* what the process() calls on the instance returned, in order
    last_call,      \* what the latest process() call met: validation, reading, parsing, writing
    status,         \* the dict of the latest get_processing_status()
    spc,            \* position of the user of the processor
    doc_config,     \* DocumentProcessor.config: the two input directories
    disk,           \* the directories on disk, by path
    dpc,            \* process_all: position of the call
    doc_results,    \* what process() returned for each document, in order
    resume_success,     \* process_all: local `resume_success`
    job_desc_success,   \* process_all: local `job_desc_success`
    all_returned,       \* what process_all returned
    doc_log             \* messages logged by process_all and _process_documents

ingestVars == <<file, pc, checksum, metadata, task, consumed, pages, page_log, result>>
batchVars  == <<dir, parallel, bpc, pdf_files, processed, yielded, file_log, ftask>>
relVars == <<rel_term, rel_signals, rel_extras, rel_added, rel_base, rel_plus>>
scoreVars == <<input_text, top_n, algo, kpc, raw_text, domain_terms, keyterm_scores,
               ranked, ranked_again>>
textVars == <<pre_text, pre_once, pre_twice, ppc>>
procVars == <<proc_class, proc_config, processed_at, error_details, backups, outputs,
              returned, last_call, status, spc>>
docVars == <<doc_config, disk, dpc, doc_results, resume_success, job_desc_success,
             all_returned, doc_log>>
vars == <<file, pc, checksum, metadata, task, consumed, pages, page_log, result,
          dir, parallel, bpc, pdf_files, processed, yielded, file_log, ftask,
          rel_term, rel_signals, rel_extras, rel_added, rel_base, rel_plus,
          input_text, top_n, algo, kpc, raw_text, domain_terms, keyterm_scores,
          ranked, ranked_again,
          pre_text, pre_once, pre_twice, ppc,
          proc_class, proc_config, processed_at, error_details, backups, outputs,
          returned, last_call, status, spc,
          doc_config, disk, dpc, doc_results, resume_success, job_desc_success,
          all_returned, doc_log>>

\* what a step of read_pdf, of read_multiple_pdfs, of the scorer leaves alone
outsideIngest == <<batchVars, relVars, scoreVars, textVars, procVars, docVars>>
outsideBatch == <<ingestVars, relVars, scoreVars, textVars, procVars, docVars>>
outsideRelevance == <<ingestVars, batchVars, scoreVars, textVars, procVars, docVars>>
outsideScore == <<ingestVars, batchVars, relVars, textVars, procVars, docVars>>
outsideText == <<ingestVars, batchVars, relVars, scoreVars, procVars, docVars>>
outsideProcessor == <<ingestVars, batchVars, relVars, scoreVars, textVars, docVars>>
outsideDocuments == <<ingestVars, batchVars, relVars, scoreVars, textVars, procVars>>

(***************************************************************************)
(* Bounds of the model and configuration of the processor.                 *)
(***************************************************************************)
\* largest number of pages of a document handed to read_pdf
MaxPages == 3
\* largest number of directory entries in a batch
MaxFiles == 3
\* largest number of pages of a document inside a batch directory
MaxBatchPages == 1
\* EnhancedPDFProcessor(max_workers=...): size of both thread pools
max_workers == 2
\* EnhancedPDFProcessor.max_file_size (default 100 MB)
max_file_size == 100 * 1024 * 1024

None == "None"

\* no future has been submitted yet
NoTasks == [p \in {} |-> "queued"]

\* the outcome of a call: nothing yet, a returned dict, or a raised exception
NoResult == [kind |-> "none"]
PDFProcessingError == [kind |-> "raised", type |-> "PDFProcessingError"]

\* no KeytermScore is being computed
RelevanceIdle ==
    /\ rel_term = <<>>
    /\ rel_signals = <<>>
    /\ rel_extras = {}
    /\ rel_added = <<>>
    /\ rel_base = NoResult
    /\ rel_plus = NoResult

\* no EnhancedKeytermExtractor exists
ScoreIdle ==
    /\ input_text = <<>>
    /\ top_n = 0
    /\ algo = <<>>
    /\ kpc = "idle"
    /\ raw_text = <<>>
    /\ domain_terms = {}
    /\ keyterm_scores = <<>>
    /\ ranked = NoResult
    /\ ranked_again = NoResult

\* _preprocess_text is not being applied
TextIdle ==
    /\ pre_text = <<>>
    /\ pre_once = <<>>
    /\ pre_twice = <<>>
    /\ ppc = "idle"

\* a datetime attribute that is None
NoDatetime == <<>>

\* no ResumeProcessor or JobDescriptionProcessor exists
ProcessorIdle ==
    /\ proc_class = "none"
    /\ proc_config = [validate_pdf |-> FALSE, create_backup |-> FALSE]
    /\ processed_at = NoDatetime
    /\ error_details = None
    /\ backups = 0
    /\ outputs = 0
    /\ returned = <<>>
    /\ last_call = NoResult
    /\ status = NoResult
    /\ spc = "idle"

\* no DocumentProcessor exists
DocumentsIdle ==
    /\ doc_config = [input_resume_dir |-> <<>>, input_job_dir |-> <<>>]
    /\ disk = <<>>
    /\ dpc = "idle"
    /\ doc_results = <<>>
    /\ resume_success = FALSE
    /\ job_desc_success = FALSE
    /\ all_returned = FALSE
    /\ doc_log = <<>>

(***************************************************************************)
(* Text helpers.                                                           *)
(***************************************************************************)
\* characters matched by the regular expression class \s
IsSpace(c) == c \in {" ", "\t", "\n"}

\* str.isprintable(): the space is printable, control characters are not
IsPrintable(c) == c \notin {"\t", "\n", "BEL"}

RECURSIVE CollapseWhitespace(_)
\* re.sub(r"\s+", " ", text)
CollapseWhitespace(t) ==
    IF t = <<>> THEN <<>>
    ELSE IF IsSpace(Head(t))
         THEN IF Len(t) > 1 /\ IsSpace(t[2])
              THEN CollapseWhitespace(Tail(t))
              ELSE <<" ">> \o CollapseWhitespace(Tail(t))
         ELSE <<Head(t)>> \o CollapseWhitespace(Tail(t))

\* text.replace("|", "I") then text.replace("0", "O")
FixOcr(t) ==
    [i \in 1..Len(t) |-> IF t[i] = "|" THEN "I" ELSE IF t[i] = "0" THEN "O" ELSE t[i]]

\* "".join(char for char in text if char.isprintable())
RemoveNonPrintable(t) == SelectSeq(t, IsPrintable)

RECURSIVE LStrip(_)
LStrip(t) == IF t # <<>> /\ IsSpace(Head(t)) THEN LStrip(Tail(t)) ELSE t

RECURSIVE RStrip(_)
RStrip(t) ==
    IF t # <<>> /\ IsSpace(t[Len(t)]) THEN RStrip(SubSeq(t, 1, Len(t) - 1)) ELSE t

\* str.strip()
Strip(t) == RStrip(LStrip(t))

\* EnhancedPDFProcessor._clean_text
_clean_text(text) == Strip(RemoveNonPrintable(FixOcr(CollapseWhitespace(text))))

\* page.extract_text() of the 1-based page p: every page has its own text
RawText(p) ==
    CASE p = 1 -> <<"a", " ", " ", "0">>
      [] p = 2 -> <<"|", "b", "\n">>
      [] p = 3 -> <<" ", "c", "BEL", "1">>
      [] OTHER -> <<"d", "\t", "e">>

RECURSIVE JoinContents(_)
\* "\n\n".join(page.content for page in pages)
JoinContents(ps) ==
    IF ps = <<>> THEN <<>>
    ELSE IF Len(ps) = 1 THEN ps[1].content
    ELSE ps[1].content \o <<"\n", "\n">> \o JoinContents(Tail(ps))

\* EnhancedPDFProcessor._combine_page_contents
_combine_page_contents(ps) == JoinContents(ps)

(***************************************************************************)
(* sorted(pages, key=lambda x: x.page_number): a stable insertion sort.    *)
(***************************************************************************)
RECURSIVE InsertByPageNumber(_, _)
InsertByPageNumber(p, ps) ==
    IF ps = <<>> THEN <<p>>
    ELSE IF p.page_number < Head(ps).page_number
         THEN <<p>> \o ps
         ELSE <<Head(ps)>> \o InsertByPageNumber(p, Tail(ps))

RECURSIVE SortFrom(_, _)
SortFrom(ps, acc) ==
    IF ps = <<>> THEN acc
    ELSE SortFrom(Tail(ps), InsertByPageNumber(Head(ps), acc))

\* faulty variant: the collected list is returned in completion order
SortedByPageNumber_unsorted(ps) == ps

SortedByPageNumber(ps) == SortFrom(ps, <<>>)

(***************************************************************************)
(* Files.                                                                  *)
(***************************************************************************)
\* sizes of files on disk: below, at and above the cap
Sizes == {max_file_size - 1, max_file_size, max_file_size + 1}

\* A file as the processor can observe it:
\*   ext       its extension (glob "**/*.pdf" matches "pdf")
\*   exists    Path.exists()
\*   readable  stat() and open()/read() succeed
\*   size      stat().st_size
\*   header    "pdf" when the first five bytes are %PDF-
\*   openable  PdfReader(f) and len(reader.pages) succeed
\*   npages    len(reader.pages)
\*   failing   the 1-based pages whose extract_text() raises
FilesUpTo(maxp, exts, existing, sizes) ==
    { f \in [ext : exts, exists : existing, readable : BOOLEAN, size : sizes,
             header : {"pdf", "other"}, openable : BOOLEAN,
             npages : 0..maxp, failing : SUBSET (1..maxp)] :
        /\ f.failing \subseteq 1..f.npages
        /\ ~f.exists => (~f.readable /\ f.size = max_file_size /\ f.header = "other")
        /\ ~f.readable => ~f.openable
        /\ ~f.openable => f.npages = 0 }

\* faulty variant: the page number is the index of the page, from 0
_extract_single_page_zero_based(page_num, file_name) ==
    [page_number |-> page_num,
     content     |-> _clean_text(RawText(page_num + 1)),
     file_name   |-> file_name]

\* EnhancedPDFProcessor._extract_single_page (page_num is 0-based)
_extract_single_page(page_num, file_name) ==
    [page_number |-> page_num + 1,
     content     |-> _clean_text(RawText(page_num + 1)),
     file_name   |-> file_name]

\* EnhancedPDFProcessor._extract_metadata: both branches set these fields
_extract_metadata(f, file_name, sum) ==
    [filename |-> file_name, num_pages |-> f.npages, file_size |-> f.size,
     checksum |-> sum]

\* the dict read_pdf returns
Bundle(md, ps) ==
    [kind |-> "dict", metadata |-> md, pages |-> ps,
     full_text |-> _combine_page_contents(ps)]

IsBundle(r) == r.kind = "dict"

(***************************************************************************)
(* read_pdf, step by step.                                                 *)
(***************************************************************************)
IngestName == "example.pdf"

PageNums == DOMAIN task

Running == {p \in PageNums : task[p] = "running"}
Queued  == {p \in PageNums : task[p] = "queued"}

\* faulty variant: the exception leaves read_pdf as it was raised
Raise_unwrapped ==
    /\ pc' = "failed"
    /\ result' = [kind |-> "raised", type |-> "Exception"]

\* except Exception as e: raise PDFProcessingError(...)
Raise ==
    /\ pc' = "failed"
    /\ result' = PDFProcessingError

\* if not pdf_path.exists(): raise PDFProcessingError
CheckExists ==
    /\ pc = "start"
    /\ IF file.exists
       THEN pc' = "checksum" /\ UNCHANGED result
       ELSE Raise
    /\ UNCHANGED <<file, checksum, metadata, task, consumed, pages, page_log>>
    /\ UNCHANGED outsideIngest

\* checksum = self._calculate_checksum(pdf_path)
CalculateChecksum ==
    /\ pc = "checksum"
    /\ IF file.readable
       THEN pc' = "open" /\ checksum' = "md5" /\ UNCHANGED result
       ELSE Raise /\ UNCHANGED checksum
    /\ UNCHANGED <<file, metadata, task, consumed, pages, page_log>>
    /\ UNCHANGED outsideIngest

\* with open(pdf_path, "rb") as f: reader = PdfReader(f)
OpenContainer ==
    /\ pc = "open"
    /\ IF file.openable
       THEN pc' = "metadata" /\ UNCHANGED result
       ELSE Raise
    /\ UNCHANGED <<file, checksum, metadata, task, consumed, pages, page_log>>
    /\ UNCHANGED outsideIngest

\* metadata = self._extract_metadata(reader, pdf_path, checksum)
ExtractMetadata ==
    /\ pc = "metadata"
    /\ metadata' = _extract_metadata(file, IngestName, checksum)
    /\ pc' = "submit"
    /\ UNCHANGED <<file, checksum, task, consumed, pages, page_log, result>>
    /\ UNCHANGED outsideIngest

\* pages = []; every page is submitted to the executor
SubmitPages ==
    /\ pc = "submit"
    /\ task' = [p \in 0..(file.npages - 1) |-> "queued"]
    /\ consumed' = {}
    /\ pages' = <<>>
    /\ pc' = "collect"
    /\ UNCHANGED <<file, checksum, metadata, page_log, result>>
    /\ UNCHANGED outsideIngest

\* an idle worker of the pool takes the oldest queued work item
StartPage(p) ==
    /\ pc = "collect"
    /\ p \in Queued
    /\ \A q \in Queued : p <= q
    /\ Cardinality(Running) < max_workers
    /\ task' = [task EXCEPT ![p] = "running"]
    /\ UNCHANGED <<file, pc, checksum, metadata, consumed, pages, page_log, result>>
    /\ UNCHANGED outsideIngest

\* _extract_single_page returns or raises in its worker thread
FinishPage(p) ==
    /\ pc = "collect"
    /\ p \in Running
    /\ task' = [task EXCEPT ![p] = IF (p + 1) \in file.failing THEN "raised" ELSE "ok"]
    /\ UNCHANGED <<file, pc, checksum, metadata, consumed, pages, page_log, result>>
    /\ UNCHANGED outsideIngest

\* what the body of the as_completed loop does with a future that raised:
\* "log" (except Exception: self.logger.error) or "propagate"
OnPageError_propagate == "propagate"

OnPageError == "log"

\* one iteration of `for future in as_completed(future_to_page)`
CollectPage(p) ==
    /\ pc = "collect"
    /\ p \in PageNums \ consumed
    /\ task[p] \in {"ok", "raised"}
    /\ consumed' = consumed \cup {p}
    /\ IF task[p] = "ok"
       THEN /\ pages' = Append(pages, _extract_single_page(p, IngestName))
            /\ UNCHANGED <<pc, page_log, result>>
       ELSE IF OnPageError = "log"
            THEN /\ page_log' = Append(page_log, p)
                 /\ UNCHANGED <<pc, pages, result>>
            ELSE /\ Raise
                 /\ UNCHANGED <<pages, page_log>>
    /\ UNCHANGED <<file, checksum, metadata, task>>
    /\ UNCHANGED outsideIngest

\* the arguments of the work item of page p:
\* executor.submit(self._extract_single_page, reader, page_num, file_name)
TaskArguments(p) == [reader |-> "reader", page_num |-> p, file_name |-> IngestName]

\* The mutable objects the task of page p works on: the one PdfReader over the
\* one open file, from which it takes its page and extracts the text
\* (page_num and file_name are an int and a str).
TaskMutableState(p) == {TaskArguments(p).reader}

\* faulty variant: the dict is returned without waiting for the futures
ReturnBundle_early ==
    /\ pc = "collect"
    /\ result' = Bundle(metadata, SortedByPageNumber(pages))
    /\ pc' = "done"
    /\ UNCHANGED <<file, checksum, metadata, task, consumed, pages, page_log>>
    /\ UNCHANGED outsideIngest

\* the loop is exhausted, the executor is shut down, the dict is returned
ReturnBundle ==
    /\ pc = "collect"
    /\ consumed = PageNums
    /\ result' = Bundle(metadata, SortedByPageNumber(pages))
    /\ pc' = "done"
    /\ UNCHANGED <<file, checksum, metadata, task, consumed, pages, page_log>>
    /\ UNCHANGED outsideIngest

IngestFiles == FilesUpTo(MaxPages, {"pdf"}, BOOLEAN, Sizes)

BatchIdle ==
    /\ dir = [exists |-> FALSE, is_dir |-> FALSE, files |-> <<>>]
    /\ parallel = FALSE
    /\ bpc = "idle"
    /\ pdf_files = <<>>
    /\ processed = {}
    /\ yielded = <<>>
    /\ file_log = <<>>
    /\ ftask = NoTasks

InitReadPdf ==
    /\ file \in IngestFiles
    /\ pc = "start"
    /\ checksum = None
    /\ metadata = None
    /\ task = NoTasks
    /\ consumed = {}
    /\ pages = <<>>
    /\ page_log = <<>>
    /\ result = NoResult
    /\ BatchIdle
    /\ RelevanceIdle
    /\ ScoreIdle
    /\ TextIdle
    /\ ProcessorIdle
    /\ DocumentsIdle

NextReadPdf ==
    \/ CheckExists
    \/ CalculateChecksum
    \/ OpenContainer
    \/ ExtractMetadata
    \/ SubmitPages
    \/ \E p \in 0..(MaxPages - 1) : StartPage(p)
    \/ \E p \in 0..(MaxPages - 1) : FinishPage(p)
    \/ \E p \in 0..(MaxPages - 1) : CollectPage(p)
    \/ ReturnBundle

SpecReadPdf == InitReadPdf /\ [][NextReadPdf]_vars

(***************************************************************************)
(* get_pdf_files.                                                          *)
(***************************************************************************)
\* sizes of the files of a batch directory: at the cap and above it
BatchSizes == {max_file_size, max_file_size + 1}

\* The files of a batch directory.  What the batch never reads of a file is
\* fixed: a file glob does not match, an unreadable file, a file over the
\* cap and a file with another header are never opened as a container.
BatchFiles ==
    { f \in FilesUpTo(MaxBatchPages, {"pdf", "txt"}, {TRUE}, BatchSizes) :
        /\ f.ext # "pdf" => (f.readable /\ f.size = max_file_size /\ f.header = "pdf")
        /\ ~f.readable => (f.ext = "pdf" /\ f.size = max_file_size /\ f.header = "other")
        /\ f.size > max_file_size => f.header = "pdf"
        /\ (f.ext # "pdf" \/ f.size > max_file_size \/ f.header # "pdf") => ~f.openable }

Directories ==
    { [exists |-> FALSE, is_dir |-> FALSE, files |-> <<>>],
      [exists |-> TRUE, is_dir |-> FALSE, files |-> <<>>] }
    \cup { [exists |-> TRUE, is_dir |-> TRUE, files |-> fs] :
             fs \in UNION { [1..n -> BatchFiles] : n \in 0..MaxFiles } }

\* faulty variant: a file of exactly max_file_size bytes is skipped too
SizeExceeds_inclusive(f) == f.size >= max_file_size

\* pdf_file.stat().st_size > self.max_file_size
SizeExceeds(f) == f.size > max_file_size

\* faulty variant: the header is not looked at
HeaderOk_any(f) == TRUE

\* header.startswith(b"%PDF-")
HeaderOk(f) == f.header = "pdf"

\* faulty variant: an error while validating a file is not caught
OnValidateError_propagate == "raise"

\* except Exception as e: self.logger.error("Error validating ...")
OnValidateError == "skip"

\* the body of `for pdf_file in pdf_files`: "valid", "skip" or "raise"
ValidateFile(f) ==
    IF ~f.readable THEN OnValidateError
    ELSE IF SizeExceeds(f) THEN "skip"
    ELSE IF HeaderOk(f) THEN "valid"
    ELSE "skip"

\* directory.glob("**/*.pdf"): the paths (indices into d.files) in
\* enumeration order
Glob(d) == SelectSeq([i \in 1..Len(d.files) |-> i], LAMBDA i : d.files[i].ext = "pdf")

\* EnhancedPDFProcessor.get_pdf_files: the list of valid paths, or the
\* PDFProcessingError it raises
get_pdf_files(d) ==
    IF ~d.exists \/ ~d.is_dir THEN PDFProcessingError
    ELSE IF \E i \in 1..Len(d.files) :
              d.files[i].ext = "pdf" /\ ValidateFile(d.files[i]) = "raise"
         THEN PDFProcessingError
    ELSE [kind |-> "list",
          files |-> SelectSeq(Glob(d), LAMBDA i : ValidateFile(d.files[i]) = "valid")]

(***************************************************************************)
(* read_pdf as one call, for the file-level loop.                          *)
(***************************************************************************)
\* the orders in which as_completed can deliver the elements of S
Orders(S) ==
    { o \in [1..Cardinality(S) -> S] : \A i, j \in 1..Cardinality(S) : i # j => o[i] # o[j] }

\* the list `pages` after the as_completed loop delivered the good pages in order o
CollectedPages(o, file_name) ==
    [k \in 1..Len(o) |-> _extract_single_page(o[k] - 1, file_name)]

\* EnhancedPDFProcessor.read_pdf: every outcome the call can have on file f
read_pdf(f, file_name) ==
    IF ~f.exists \/ ~f.readable \/ ~f.openable THEN {PDFProcessingError}
    ELSE IF f.failing # {} /\ OnPageError # "log" THEN {PDFProcessingError}
    ELSE { Bundle(_extract_metadata(f, file_name, "md5"),
                  SortedByPageNumber(CollectedPages(o, file_name))) :
             o \in Orders((1..f.npages) \ f.failing) }

(***************************************************************************)
(* read_multiple_pdfs, step by step.                                       *)
(***************************************************************************)
Discovered == {pdf_files[k] : k \in 1..Len(pdf_files)}

\* pdf_files = self.get_pdf_files(directory); the exception of
\* get_pdf_files leaves the generator
Discover ==
    /\ bpc = "start"
    /\ LET r == get_pdf_files(dir)
       IN IF r.kind = "raised"
          THEN bpc' = "raised" /\ UNCHANGED pdf_files
          ELSE /\ pdf_files' = r.files
               /\ bpc' = IF parallel /\ Len(r.files) > 1 THEN "submit" ELSE "sequential"
    /\ UNCHANGED <<dir, parallel, processed, yielded, file_log, ftask>>
    /\ UNCHANGED outsideBatch

FilesRunning == {i \in DOMAIN ftask : ftask[i] = "running"}
FilesQueued  == {i \in DOMAIN ftask : ftask[i] = "queued"}

\* the place of path i in the list pdf_files, the order of submission
PositionIn(i) == CHOOSE k \in 1..Len(pdf_files) : pdf_files[k] = i

\* every file is submitted to the executor
SubmitFiles ==
    /\ bpc = "submit"
    /\ bpc' = "as_completed"
    /\ ftask' = [i \in Discovered |-> "queued"]
    /\ UNCHANGED <<dir, parallel, pdf_files, processed, yielded, file_log>>
    /\ UNCHANGED outsideBatch

\* faulty variant: a work item starts whatever the number of busy workers
StartFile_unbounded(i) ==
    /\ bpc = "as_completed"
    /\ i \in FilesQueued
    /\ \A j \in FilesQueued : PositionIn(i) <= PositionIn(j)
    /\ ftask' = [ftask EXCEPT ![i] = "running"]
    /\ UNCHANGED <<dir, parallel, bpc, pdf_files, processed, yielded, file_log>>
    /\ UNCHANGED outsideBatch

\* an idle worker of the file-level pool takes the oldest queued read_pdf
StartFile(i) ==
    /\ bpc = "as_completed"
    /\ i \in FilesQueued
    /\ \A j \in FilesQueued : PositionIn(i) <= PositionIn(j)
    /\ Cardinality(FilesRunning) < max_workers
    /\ ftask' = [ftask EXCEPT ![i] = "running"]
    /\ UNCHANGED <<dir, parallel, bpc, pdf_files, processed, yielded, file_log>>
    /\ UNCHANGED outsideBatch

\* faulty variant: the exception of one file leaves the generator
OnFileError_propagate == "propagate"

\* except Exception as e: self.logger.error("Error processing ...")
OnFileError == "log"

\* the body of either loop for path i, whose read_pdf call ended with r
HandleResult(i, r) ==
    /\ processed' = processed \cup {i}
    /\ IF r.kind = "dict"
       THEN yielded' = Append(yielded, r) /\ UNCHANGED <<bpc, file_log>>
       ELSE IF OnFileError = "log"
            THEN file_log' = Append(file_log, i) /\ UNCHANGED <<bpc, yielded>>
            ELSE bpc' = "raised" /\ UNCHANGED <<yielded, file_log>>
    /\ UNCHANGED <<dir, parallel, pdf_files>>

\* one iteration of `for future in as_completed(future_to_pdf)`: the futures
\* arrive in the order in which the read_pdf calls end
CompleteFile(i) ==
    /\ bpc = "as_completed"
    /\ i \in Discovered \ processed
    /\ i \in FilesRunning
    /\ ftask' = [ftask EXCEPT ![i] = "finished"]
    /\ \E r \in read_pdf(dir.files[i], i) : HandleResult(i, r)
    /\ UNCHANGED outsideBatch

\* one iteration of `for pdf_file in pdf_files`
SequentialFile(i) ==
    /\ bpc = "sequential"
    /\ i \in Discovered \ processed
    /\ \A j \in Discovered \ processed : i <= j
    /\ \E r \in read_pdf(dir.files[i], i) : HandleResult(i, r)
    /\ UNCHANGED ftask
    /\ UNCHANGED outsideBatch

\* the loop is exhausted: the generator ends
FinishBatch ==
    /\ bpc \in {"as_completed", "sequential"}
    /\ processed = Discovered
    /\ bpc' = "done"
    /\ UNCHANGED <<dir, parallel, pdf_files, processed, yielded, file_log, ftask>>
    /\ UNCHANGED outsideBatch

IngestIdle ==
    /\ file = [ext |-> "pdf", exists |-> FALSE, readable |-> FALSE,
               size |-> max_file_size, header |-> "other", openable |-> FALSE,
               npages |-> 0, failing |-> {}]
    /\ pc = "idle"
    /\ checksum = None
    /\ metadata = None
    /\ task = NoTasks
    /\ consumed = {}
    /\ pages = <<>>
    /\ page_log = <<>>
    /\ result = NoResult

InitBatch ==
    /\ dir \in Directories
    /\ parallel \in BOOLEAN
    /\ bpc = "start"
    /\ pdf_files = <<>>
    /\ processed = {}
    /\ yielded = <<>>
    /\ file_log = <<>>
    /\ ftask = NoTasks
    /\ IngestIdle
    /\ RelevanceIdle
    /\ ScoreIdle
    /\ TextIdle
    /\ ProcessorIdle
    /\ DocumentsIdle

NextBatch ==
    \/ Discover
    \/ SubmitFiles
    \/ \E i \in 1..MaxFiles : StartFile(i)
    \/ \E i \in 1..MaxFiles : CompleteFile(i)
    \/ \E i \in 1..MaxFiles : SequentialFile(i)
    \/ FinishBatch

SpecBatch == InitBatch /\ [][NextBatch]_vars

(***************************************************************************)
(* One processor, used for one read_pdf call or for one batch: both        *)
(* thread pools.                                                           *)
(***************************************************************************)
InitPools == InitReadPdf \/ InitBatch

NextPools == NextReadPdf \/ NextBatch

SpecPools == InitPools /\ [][NextPools]_vars

(***************************************************************************)
(* Properties of read_pdf (checked under SpecReadPdf).                     *)
(***************************************************************************)
RECURSIVE GoodPagesFrom(_, _)
\* the pages of `file` whose extraction succeeds, from page p on, ascending
GoodPagesFrom(p, name) ==
    IF p > file.npages THEN <<>>
    ELSE IF p \in file.failing THEN GoodPagesFrom(p + 1, name)
    ELSE <<_extract_single_page(p - 1, name)>> \o GoodPagesFrom(p + 1, name)

PageNumbers(ps) == {ps[k].page_number : k \in 1..Len(ps)}

\* C1: whatever the order in which the page-extraction tasks complete,
\* read_pdf returns the pages in ascending page_number order, and pages and
\* full_text are those of the document read in page order: the completion
\* order leaves no trace in the result.
C1_OrderStable ==
    pc = "done" =>
        /\ \A i, j \in 1..Len(result.pages) :
             i < j => result.pages[i].page_number < result.pages[j].page_number
        /\ result.pages = GoodPagesFrom(1, IngestName)
        /\ result.full_text = JoinContents(GoodPagesFrom(1, IngestName))

\* a call whose tasks were collected in another order than the page order
C1_Witness ==
    /\ pc = "done"
    /\ Len(pages) >= 2
    /\ \E i \in 1..(Len(pages) - 1) : pages[i].page_number > pages[i + 1].page_number

\* C2: when some but not all pages of an N-page document fail to extract,
\* read_pdf returns a dict that holds exactly the pages that succeeded, logs
\* each failed page once, and reports num_pages = N.
C2_PartialBundle ==
    ( /\ pc \in {"done", "failed"}
      /\ file.exists /\ file.readable /\ file.openable
      /\ file.failing # {}
      /\ file.failing # 1..file.npages )
    => /\ pc = "done"
       /\ IsBundle(result)
       /\ PageNumbers(result.pages) = (1..file.npages) \ file.failing
       /\ Len(result.pages) = file.npages - Cardinality(file.failing)
       /\ Len(page_log) = Cardinality(file.failing)
       /\ result.metadata.num_pages = file.npages

\* the 3-page document whose page 2 fails: the dict holds pages 1 and 3
C2_Witness ==
    /\ pc = "done"
    /\ file.npages = 3
    /\ file.failing = {2}
    /\ PageNumbers(result.pages) = {1, 3}
    /\ page_log = <<1>>

\* C3: read_pdf does not return a dict for a document with at least one
\* page all of whose pages fail to extract.
C3_AllPagesFailIsFailure ==
    pc = "done" => ~(file.npages >= 1 /\ file.failing = 1..file.npages)

\* C8: for a file that does not start with %PDF- or is larger than
\* max_file_size, read_pdf computes no checksum and returns no dict: the
\* call fails on the validation, before hashing and opening.
C8_IngestValidates ==
    (file.exists /\ (file.header # "pdf" \/ file.size > max_file_size))
    => (checksum = None /\ pc # "done")

(***************************************************************************)
(* Properties of get_pdf_files and read_multiple_pdfs (under SpecBatch).   *)
(***************************************************************************)
YieldedPaths == {yielded[k].metadata.filename : k \in 1..Len(yielded)}
LoggedPaths == {file_log[k] : k \in 1..Len(file_log)}

\* the directory entries that have a .pdf extension, can be read, start
\* with %PDF- and are not larger than the cap
AcceptablePaths ==
    {i \in 1..Len(dir.files) :
        /\ dir.files[i].ext = "pdf"
        /\ dir.files[i].readable
        /\ dir.files[i].header = "pdf"
        /\ dir.files[i].size <= max_file_size}

\* C4: the batch delivers exactly one result entry for every discovered path.
C4_OneEntryPerPath ==
    bpc = "done" =>
        /\ Len(yielded) = Len(pdf_files)
        /\ YieldedPaths = Discovered

\* C5: the failure of one file's read_pdf never leaves the batch: no
\* exception escapes once discovery returned, every discovered file is
\* processed, every file whose read_pdf succeeds is yielded exactly once
\* and every other one is logged exactly once.
C5_FileFailureContained ==
    /\ bpc = "raised" => (pdf_files = <<>> /\ processed = {})
    /\ bpc = "done" =>
        /\ processed = Discovered
        /\ YieldedPaths = {i \in Discovered : dir.files[i].openable}
        /\ LoggedPaths = {i \in Discovered : ~dir.files[i].openable}
        /\ Len(yielded) + Len(file_log) = Len(pdf_files)

\* a sequential batch in which a file failed and a later file was yielded
C5_Witness ==
    /\ bpc = "done"
    /\ ~parallel
    /\ \E k \in 1..Len(file_log) : \E j \in 1..Len(yielded) :
         file_log[k] < yielded[j].metadata.filename

\* C6: the results are delivered in the enumeration order of get_pdf_files.
C6_DiscoveryOrder ==
    \A a, b \in 1..Len(yielded) :
        a < b => yielded[a].metadata.filename < yielded[b].metadata.filename

\* C7: get_pdf_files returns, once each and in enumeration order, exactly
\* the .pdf files that start with %PDF- and whose size is at most
\* max_file_size (the size of the cap included).
C7_DiscoverExact ==
    bpc \notin {"start", "raised"} =>
        /\ Discovered = AcceptablePaths
        /\ Len(pdf_files) = Cardinality(Discovered)
        /\ \A a, b \in 1..Len(pdf_files) : a < b => pdf_files[a] < pdf_files[b]

\* a directory with a file at the cap (returned), a file over the cap and a
\* file with another header (both left out)
C7_Witness ==
    /\ bpc \notin {"start", "raised"}
    /\ \E i \in Discovered : dir.files[i].size = max_file_size
    /\ \E i \in 1..Len(dir.files) :
         /\ i \notin Discovered
         /\ dir.files[i].ext = "pdf" /\ dir.files[i].size > max_file_size
    /\ \E i \in 1..Len(dir.files) :
         /\ i \notin Discovered
         /\ dir.files[i].ext = "pdf" /\ dir.files[i].header = "other"
         /\ dir.files[i].readable

\* C9: get_pdf_files raises exactly when the directory does not exist or is
\* not a directory; a file that cannot be read, has another header or is
\* over the cap is skipped and the other files are still returned.
C9_DiscoverRaisesOnlyForDirectory ==
    bpc # "start" =>
        /\ (bpc = "raised") <=> ~(dir.exists /\ dir.is_dir)
        /\ (dir.exists /\ dir.is_dir) => AcceptablePaths \subseteq Discovered

\* a directory with an unreadable file before a good one, which is returned
C9_Witness ==
    /\ bpc \notin {"start", "raised"}
    /\ \E i \in 1..Len(dir.files) : \E j \in Discovered :
         /\ i < j
         /\ dir.files[i].ext = "pdf" /\ ~dir.files[i].readable

\* the .pdf files without the %PDF- header
BadHeaderPaths ==
    {i \in 1..Len(dir.files) :
        /\ dir.files[i].ext = "pdf" /\ dir.files[i].readable
        /\ dir.files[i].size <= max_file_size /\ dir.files[i].header = "other"}

\* the valid one-page documents
OnePagePaths ==
    {i \in AcceptablePaths : dir.files[i].openable /\ dir.files[i].npages = 1}

\* a directory of k >= 1 valid one-page documents and one .pdf file without
\* the %PDF- header
ScenarioDirectory ==
    /\ dir.exists /\ dir.is_dir
    /\ Cardinality(BadHeaderPaths) = 1
    /\ OnePagePaths # {}
    /\ OnePagePaths \cup BadHeaderPaths = 1..Len(dir.files)

\* C10 as stated: the batch ends with k+1 entries, the failure of the
\* file without header being one of them.
C10_ScenarioHasFailureEntry ==
    (bpc = "done" /\ ScenarioDirectory) =>
        Len(yielded) + Len(file_log) = Cardinality(OnePagePaths) + 1

\* C10, amended: the batch ends with k entries, all of them dicts with
\* num_pages = 1; the file without header is left out by get_pdf_files and
\* has no entry, neither yielded nor logged.
C10_ScenarioYieldsOnlyValid ==
    (bpc = "done" /\ ScenarioDirectory) =>
        /\ Len(yielded) = Cardinality(OnePagePaths)
        /\ YieldedPaths = OnePagePaths
        /\ \A k \in 1..Len(yielded) : yielded[k].metadata.num_pages = 1
        /\ file_log = <<>>

\* the batch over two valid one-page documents and one file without header
C10_Witness ==
    /\ bpc = "done"
    /\ ScenarioDirectory
    /\ Cardinality(OnePagePaths) = 2
    /\ Len(yielded) = 2

(***************************************************************************)
(* Strings of the keyterm scorer.                                          *)
(***************************************************************************)
UpperLetters == <<"A", "B", "C", "D", "E", "F", "G", "H", "I", "J", "K", "L", "M", "N", "O", "P", "Q", "R", "S", "T", "U", "V", "W", "X", "Y", "Z">>
LowerLetters == <<"a", "b", "c", "d", "e", "f", "g", "h", "i", "j", "k", "l", "m", "n", "o", "p", "q", "r", "s", "t", "u", "v", "w", "x", "y", "z">>
Digits == <<"0", "1", "2", "3", "4", "5", "6", "7", "8", "9">>

InSeq(c, q) == \E i \in 1..Len(q) : q[i] = c

\* the characters of the model in code-point order
CodePoints == <<"\t", "\n", " ", "!", "-", ".", "?">> \o Digits \o UpperLetters
              \o <<"_">> \o LowerLetters

\* ord(c), up to an order-preserving renumbering
Ord(c) == CHOOSE i \in 1..Len(CodePoints) : CodePoints[i] = c

\* str.lower() of one character
LowerChar(c) ==
    IF InSeq(c, UpperLetters)
    THEN LowerLetters[CHOOSE i \in 1..Len(UpperLetters) : UpperLetters[i] = c]
    ELSE c

\* str.lower()
Lower(t) == [i \in 1..Len(t) |-> LowerChar(t[i])]

\* the regular expression class \w
IsWordChar(c) ==
    InSeq(c, UpperLetters) \/ InSeq(c, LowerLetters) \/ InSeq(c, Digits) \/ c = "_"

\* re.sub(r"[^\w\s-]", " ", text)
BlankSpecialChars(t) ==
    [i \in 1..Len(t) |-> IF IsWordChar(t[i]) \/ IsSpace(t[i]) \/ t[i] = "-"
                         THEN t[i] ELSE " "]

\* EnhancedKeytermExtractor._preprocess_text
_preprocess_text(text) == Strip(Lower(BlankSpecialChars(CollapseWhitespace(text))))

\* a in b, for strings
IsSubstring(a, b) ==
    \E i \in 0..(Len(b) - Len(a)) : SubSeq(b, i + 1, i + Len(a)) = a

RECURSIVE StrLess(_, _)
\* a < b, for strings
StrLess(a, b) ==
    IF b = <<>> THEN FALSE
    ELSE IF a = <<>> THEN TRUE
    ELSE IF Head(a) # Head(b) THEN Ord(Head(a)) < Ord(Head(b))
    ELSE StrLess(Tail(a), Tail(b))

(***************************************************************************)
(* The domain vocabulary and the domain relevance of a term.               *)
(***************************************************************************)
\* EnhancedKeytermExtractor.TECH_SKILLS
TECH_SKILLS ==
    { <<"p", "y", "t", "h", "o", "n">>,
      <<"j", "a", "v", "a">>,
      <<"j", "a", "v", "a", "s", "c", "r", "i", "p", "t">>,
      <<"r", "e", "a", "c", "t">>,
      <<"n", "o", "d", "e", ".", "j", "s">>,
      <<"s", "q", "l">>,
      <<"a", "w", "s">>,
      <<"d", "o", "c", "k", "e", "r">>,
      <<"k", "u", "b", "e", "r", "n", "e", "t", "e", "s">>,
      <<"m", "a", "c", "h", "i", "n", "e", " ", "l", "e", "a", "r", "n", "i", "n", "g">>,
      <<"d", "e", "e", "p", " ", "l", "e", "a", "r", "n", "i", "n", "g">>,
      <<"a", "i">>,
      <<"d", "a", "t", "a", " ", "s", "c", "i", "e", "n", "c", "e">>,
      <<"b", "a", "c", "k", "e", "n", "d">>,
      <<"f", "r", "o", "n", "t", "e", "n", "d">>,
      <<"f", "u", "l", "l", " ", "s", "t", "a", "c", "k">>,
      <<"d", "e", "v", "o", "p", "s">>,
      <<"c", "l", "o", "u", "d", " ", "c", "o", "m", "p", "u", "t", "i", "n", "g">>,
      <<"m", "i", "c", "r", "o", "s", "e", "r", "v", "i", "c", "e", "s">>,
      <<"r", "e", "s", "t", " ", "a", "p", "i">>,
      <<"g", "r", "a", "p", "h", "q", "l">>,
      <<"c", "o", "n", "t", "i", "n", "u", "o", "u", "s", " ", "i", "n", "t", "e", "g", "r", "a", "t", "i", "o", "n">>,
      <<"c", "o", "n", "t", "i", "n", "u", "o", "u", "s", " ", "d", "e", "p", "l", "o", "y", "m", "e", "n", "t">>,
      <<"a", "g", "i", "l", "e">> }

\* EnhancedKeytermExtractor.JOB_TITLES
JOB_TITLES ==
    { <<"s", "o", "f", "t", "w", "a", "r", "e", " ", "e", "n", "g", "i", "n", "e", "e", "r">>,
      <<"d", "e", "v", "e", "l", "o", "p", "e", "r">>,
      <<"a", "r", "c", "h", "i", "t", "e", "c", "t">>,
      <<"d", "a", "t", "a", " ", "s", "c", "i", "e", "n", "t", "i", "s", "t">>,
      <<"p", "r", "o", "d", "u", "c", "t", " ", "m", "a", "n", "a", "g", "e", "r">>,
      <<"p", "r", "o", "j", "e", "c", "t", " ", "m", "a", "n", "a", "g", "e", "r">>,
      <<"t", "e", "a", "m", " ", "l", "e", "a", "d">>,
      <<"d", "i", "r", "e", "c", "t", "o", "r">>,
      <<"v", "p">>,
      <<"c", "h", "i", "e", "f">>,
      <<"s", "p", "e", "c", "i", "a", "l", "i", "s", "t">>,
      <<"a", "n", "a", "l", "y", "s", "t">>,
      <<"c", "o", "n", "s", "u", "l", "t", "a", "n", "t">>,
      <<"a", "d", "m", "i", "n", "i", "s", "t", "r", "a", "t", "o", "r">> }

\* _calculate_domain_relevance: local set `technical_words`
technical_words ==
    { <<"d", "a", "t", "a">>,
      <<"s", "o", "f", "t", "w", "a", "r", "e">>,
      <<"s", "y", "s", "t", "e", "m">>,
      <<"a", "p", "i">>,
      <<"w", "e", "b">>,
      <<"c", "l", "o", "u", "d">>,
      <<"a", "p", "p">> }

\* faulty variant: update() is given the terms as one string each, which
\* adds their characters
DomainTerms_characters(extras) ==
    (TECH_SKILLS \cup JOB_TITLES)
    \cup UNION { {<<t[i]>> : i \in 1..Len(t)} : t \in extras }

\* __init__: self.domain_terms for the argument domain_specific_terms
DomainTerms(extras) == (TECH_SKILLS \cup JOB_TITLES) \cup extras

\* EnhancedKeytermExtractor._calculate_domain_relevance, in hundredths
_calculate_domain_relevance(term, dterms) ==
    IF term \in dterms THEN 100
    ELSE IF \E domain_term \in dterms :
              IsSubstring(domain_term, term) \/ IsSubstring(term, domain_term)
         THEN 75
    ELSE IF \E word \in technical_words : IsSubstring(word, term) THEN 50
    ELSE 0

\* _calculate_combined_score: the dict `weights`, in hundredths
weights ==
    [textrank |-> 20, sgrank |-> 20, scake |-> 15, yake |-> 15, tfidf |-> 15,
     domain |-> 15]

\* faulty variant: the domain relevance is left out of the sum
_calculate_combined_score_no_domain(score) ==
    weights["textrank"] * score.textrank_score
    + weights["sgrank"] * score.sgrank_score
    + weights["scake"] * score.scake_score
    + weights["yake"] * score.yake_score
    + weights["tfidf"] * score.tfidf_score

\* EnhancedKeytermExtractor._calculate_combined_score, in ten-thousandths
_calculate_combined_score(score) ==
    weights["textrank"] * score.textrank_score
    + weights["sgrank"] * score.sgrank_score
    + weights["scake"] * score.scake_score
    + weights["yake"] * score.yake_score
    + weights["tfidf"] * score.tfidf_score
    + weights["domain"] * score.domain_relevance

\* the names of the scoring algorithms, in the order extract_all_keyterms
\* calls them
Algorithms == <<"textrank", "sgrank", "scake", "yake", "tfidf">>

\* dict.get(term, 0.0)
GetOrZero(mapping, term) == IF term \in DOMAIN mapping THEN mapping[term] ELSE 0

\* the body of `for term in all_terms`: the KeytermScore of one term, given
\* the mapping each algorithm returned
MakeKeytermScore(term, maps, dterms) ==
    LET score == [term |-> term,
                  textrank_score |-> GetOrZero(maps["textrank"], term),
                  sgrank_score |-> GetOrZero(maps["sgrank"], term),
                  scake_score |-> GetOrZero(maps["scake"], term),
                  yake_score |-> GetOrZero(maps["yake"], term),
                  tfidf_score |-> GetOrZero(maps["tfidf"], term),
                  domain_relevance |-> _calculate_domain_relevance(term, dterms)]
    IN [kind |-> "score"] @@ score @@ [combined_score |-> _calculate_combined_score(score)]

(***************************************************************************)
(* The KeytermScore of one term, under a vocabulary and under the          *)
(* vocabulary with one more term.                                          *)
(***************************************************************************)
\* the terms that are scored: sql, ai, data, sql server, email, web, test,
\* rust, trust and the empty term
RelevanceTerms ==
    { <<"s", "q", "l">>,
      <<"a", "i">>,
      <<"d", "a", "t", "a">>,
      <<"s", "q", "l", " ", "s", "e", "r", "v", "e", "r">>,
      <<"e", "m", "a", "i", "l">>,
      <<"w", "e", "b">>,
      <<"t", "e", "s", "t">>,
      <<"r", "u", "s", "t">>,
      <<"t", "r", "u", "s", "t">>,
      <<>> }

\* the terms domain_specific_terms is drawn from: Rust, go
ExtraTermsPool ==
    { <<"R", "u", "s", "t">>,
      <<"g", "o">> }

\* the terms one of which the second vocabulary has in addition
AddedTerms ==
    { <<"r", "u", "s", "t">>,
      <<"R", "u", "s", "t">>,
      <<"t", "e", "s", "t">> }

\* the scores an algorithm gives a term it returns, in hundredths
ScoreValues == {50}

\* the record of the five algorithm scores of one term as five mappings
SignalMaps(term, signals) ==
    [a \in {"textrank", "sgrank", "scake", "yake", "tfidf"} |->
        IF signals[a] > 0 THEN (term :> signals[a]) ELSE <<>>]

\* the KeytermScore of the term under domain_specific_terms = rel_extras
ScoreTerm ==
    /\ rel_base = NoResult
    /\ rel_term \in RelevanceTerms
    /\ rel_base' = MakeKeytermScore(rel_term, SignalMaps(rel_term, rel_signals),
                                    DomainTerms(rel_extras))
    /\ UNCHANGED <<rel_term, rel_signals, rel_extras, rel_added, rel_plus>>
    /\ UNCHANGED outsideRelevance

\* the KeytermScore of the term under rel_extras with rel_added
ScoreTermAdded ==
    /\ rel_plus = NoResult
    /\ rel_term \in RelevanceTerms
    /\ rel_plus' = MakeKeytermScore(rel_term, SignalMaps(rel_term, rel_signals),
                                    DomainTerms(rel_extras \cup {rel_added}))
    /\ UNCHANGED <<rel_term, rel_signals, rel_extras, rel_added, rel_base>>
    /\ UNCHANGED outsideRelevance

InitRelevance ==
    /\ rel_term \in RelevanceTerms
    /\ rel_signals \in [{"textrank", "sgrank", "scake", "yake", "tfidf"} ->
                          {0} \cup ScoreValues]
    /\ rel_extras \in SUBSET ExtraTermsPool
    /\ rel_added \in AddedTerms
    /\ rel_base = NoResult
    /\ rel_plus = NoResult
    /\ IngestIdle
    /\ BatchIdle
    /\ ScoreIdle
    /\ TextIdle
    /\ ProcessorIdle
    /\ DocumentsIdle

NextRelevance ==
    \/ ScoreTerm
    \/ ScoreTermAdded

SpecRelevance == InitRelevance /\ [][NextRelevance]_vars

\* C11: every bundle read_pdf returns has pages whose page numbers are
\* pairwise distinct and lie in 1..metadata.num_pages, so that it has at most
\* metadata.num_pages pages.
C11_PageNumbersDistinctInRange ==
    (pc = "done" /\ result.kind = "dict") =>
        /\ \A i, j \in 1..Len(result.pages) :
              i # j => result.pages[i].page_number # result.pages[j].page_number
        /\ \A i \in 1..Len(result.pages) :
              result.pages[i].page_number \in 1..result.metadata.num_pages
        /\ Len(result.pages) <= result.metadata.num_pages

\* a bundle of a file of three pages, with all of them
C11_Witness ==
    /\ pc = "done"
    /\ result.kind = "dict"
    /\ result.metadata.num_pages = 3
    /\ Len(result.pages) = 3

\* C21: read_pdf returns its bundle only after every page task it submitted
\* has ended: when the bundle is there no page task is queued or running and
\* every future has been collected, and the bundle does not change afterwards.
C21_JoinBarrier ==
    /\ [](pc = "done" =>
            /\ \A p \in PageNums : task[p] \in {"ok", "raised"}
            /\ consumed = PageNums)
    /\ [][pc = "done" => (result' = result /\ pages' = pages)]_vars

\* a bundle of a file of two pages, the second of which failed
C21_Witness ==
    /\ pc = "done"
    /\ file.npages = 2
    /\ task = (0 :> "ok" @@ 1 :> "raised")

\* C22: in every reachable state at most max_workers page tasks of the file
\* are running and at most max_workers files of a parallel batch are being read.
C22_PoolsBounded ==
    /\ Cardinality(Running) <= max_workers
    /\ Cardinality(FilesRunning) <= max_workers

\* the file-level pool is full while a file waits in its queue
C22_Witness ==
    /\ bpc = "as_completed"
    /\ Cardinality(FilesRunning) = max_workers
    /\ FilesQueued # {}

\* C23: two running page tasks of one file work on no common mutable object
\* (the collector aside), and the list `pages` changes only in the loop of
\* the read_pdf call that owns it.
C23_TasksShareOnlyCollector ==
    /\ [](\A p, q \in Running :
            p # q => TaskMutableState(p) \cap TaskMutableState(q) = {})
    /\ [][pages' # pages => pc = "submit" \/ pc = "collect"]_vars

\* the file passed what get_pdf_files checks: size and header
Validated == HeaderOk(file) /\ ~SizeExceeds(file)

\* C24: the processing of a file only moves forward through validation,
\* hashing, page extraction and reassembly, or to failure: hashing starts on
\* a validated file only, page extraction starts when the checksum is there,
\* and nothing leaves the states `done` and `failed`.
C24_PhasesInOrder ==
    [][/\ pc' # pc =>
            <<pc, pc'>> \in
                {<<"start", "checksum">>, <<"checksum", "open">>, <<"open", "metadata">>,
                 <<"metadata", "submit">>, <<"submit", "collect">>, <<"collect", "done">>}
                \cup {<<q, "failed">> : q \in {"start", "checksum", "open", "metadata",
                                                 "submit", "collect"}}
       /\ (checksum = None /\ checksum' # None) => Validated
       /\ (pc # "collect" /\ pc' = "collect") => checksum # None]_vars

\* what the page content is said to be: whitespace runs collapsed, the
\* non-printable characters removed, the ends stripped, nothing else changed
CleanedOnly(t) == Strip(RemoveNonPrintable(CollapseWhitespace(t)))

\* C25: the content of every extracted page is the raw text of the page with
\* whitespace runs collapsed to one space, non-printable characters removed
\* and the ends stripped, every other character (digits, punctuation) as it was.
C25_ContentIsCleanedRawText ==
    (pc = "done" /\ result.kind = "dict") =>
        \A k \in 1..Len(result.pages) :
            result.pages[k].content = CleanedOnly(RawText(result.pages[k].page_number))

\* C27: a failure of read_pdf reaches the caller as PDFProcessingError and as
\* nothing else, and on a path that does not exist the call fails before a
\* checksum is computed or the container opened.
C27_FailuresArePDFProcessingError ==
    /\ pc = "failed" => result = [kind |-> "raised", type |-> "PDFProcessingError"]
    /\ result.kind = "raised" => (pc = "failed" /\ result.type = "PDFProcessingError")
    /\ (pc # "idle" /\ ~file.exists) =>
          (pc \in {"start", "failed"} /\ checksum = None /\ metadata = None)

\* the container of a readable file could not be opened
C27_Witness ==
    /\ pc = "failed"
    /\ file.exists
    /\ file.readable
    /\ ~file.openable
    /\ checksum # None
    /\ result.kind = "raised"

(***************************************************************************)
(* EnhancedKeytermExtractor: __init__ and extract_all_keyterms.            *)
(***************************************************************************)
\* largest top_n of an extractor
MaxTopN == 1

\* the texts given to __init__: the empty text, " !" and "Data\nAI"
InputTexts ==
    { <<>>,
      <<" ", "!">>,
      <<"D", "a", "t", "a", "\n", "A", "I">> }

\* the terms the algorithms can return: data, data science, javascript
TermUniverse ==
    { <<"d", "a", "t", "a">>,
      <<"d", "a", "t", "a", " ", "s", "c", "i", "e", "n", "c", "e">>,
      <<"j", "a", "v", "a", "s", "c", "r", "i", "p", "t">> }

\* the mappings term -> score over at most n terms of the universe
Mappings(n) ==
    UNION { [D -> ScoreValues] : D \in {X \in SUBSET TermUniverse : Cardinality(X) <= n} }

Returned(mapping) == [kind |-> "terms", map |-> mapping]
ValueError == [kind |-> "raised", type |-> "ValueError"]

\* What the four textacy algorithms (called with topn=self.top_n) can do on
\* the preprocessed text: on the empty document they return no term, on
\* another one at most top_n terms, or they raise.
TextacyOutcomes(text, n) ==
    IF text = <<>> THEN {Returned(<<>>)}
    ELSE {Returned(f) : f \in Mappings(n)} \cup {ValueError}

\* What _get_tfidf_scores can do: fit_transform raises ValueError on a text
\* without any token (empty vocabulary), and on another text it returns the
\* terms with a positive score, of which there is at least one, or raises.
TfidfOutcomes(text) ==
    IF text = <<>> THEN {ValueError}
    ELSE {Returned(f) : f \in Mappings(Cardinality(TermUniverse)) \ {<<>>}}
         \cup {ValueError}

AlgoOutcomes(text, n) ==
    { [textrank |-> a, sgrank |-> b, scake |-> c, yake |-> d, tfidf |-> e] :
        a \in TextacyOutcomes(text, n), b \in TextacyOutcomes(text, n),
        c \in TextacyOutcomes(text, n), d \in TextacyOutcomes(text, n),
        e \in TfidfOutcomes(text) }

\* the first algorithm, in call order, that raises (0 when none does)
FirstRaising(o) ==
    IF \E i \in 1..Len(Algorithms) : o[Algorithms[i]].kind = "raised"
    THEN CHOOSE i \in 1..Len(Algorithms) :
           /\ o[Algorithms[i]].kind = "raised"
           /\ \A j \in 1..(i - 1) : o[Algorithms[j]].kind # "raised"
    ELSE 0

\* textrank_terms, ..., tfidf_terms
TermMaps(o) == [a \in DOMAIN o |-> o[a].map]

\* faulty variant: the terms of tfidf are left out of the union
all_terms_without_tfidf(maps) ==
    DOMAIN maps["textrank"] \cup DOMAIN maps["sgrank"] \cup DOMAIN maps["scake"]
    \cup DOMAIN maps["yake"]

\* extract_all_keyterms: local set `all_terms`
all_terms(maps) ==
    DOMAIN maps["textrank"] \cup DOMAIN maps["sgrank"] \cup DOMAIN maps["scake"]
    \cup DOMAIN maps["yake"] \cup DOMAIN maps["tfidf"]

RECURSIVE InsertByScore(_, _)
\* x goes behind every element whose combined score is not smaller
InsertByScore(x, acc) ==
    IF acc = <<>> THEN <<x>>
    ELSE IF Head(acc).combined_score >= x.combined_score
         THEN <<Head(acc)>> \o InsertByScore(x, Tail(acc))
         ELSE <<x>> \o acc

RECURSIVE SortByScoreFrom(_, _)
SortByScoreFrom(xs, acc) ==
    IF xs = <<>> THEN acc
    ELSE SortByScoreFrom(Tail(xs), InsertByScore(Head(xs), acc))

\* sorted(keyterm_scores, key=lambda x: x.combined_score, reverse=True):
\* stable, elements of equal score keep the order of the list
SortedByCombinedScore(xs) == SortByScoreFrom(xs, <<>>)

\* faulty variant: the list is not cut
TopN_uncut(xs, n) == xs

\* xs[: n], n >= 0
TopN(xs, n) == SubSeq(xs, 1, IF n < Len(xs) THEN n ELSE Len(xs))

\* the list `keyterm_scores` when `for term in all_terms` visits the set in order o
KeytermScoresIn(o, maps, dterms) ==
    [k \in 1..Len(o) |-> MakeKeytermScore(o[k], maps, dterms)]

\* the value extract_all_keyterms returns for the list keyterm_scores
RankedList(xs, n) == [kind |-> "list", items |-> TopN(SortedByCombinedScore(xs), n)]

\* EnhancedKeytermExtractor.__init__ (domain_specific_terms=None)
Construct ==
    /\ kpc = "new"
    /\ raw_text' = _preprocess_text(input_text)
    /\ domain_terms' = DomainTerms({})
    /\ kpc' = "ready"
    /\ UNCHANGED <<input_text, top_n, algo, keyterm_scores, ranked, ranked_again>>
    /\ UNCHANGED outsideScore

\* extract_all_keyterms, first run: the exception of an algorithm leaves
\* the method; the set all_terms is visited in an order of the interpreter
ExtractAllKeyterms ==
    /\ kpc = "ready"
    /\ kpc' = "ran"
    /\ IF FirstRaising(algo) # 0
       THEN /\ ranked' = algo[Algorithms[FirstRaising(algo)]]
            /\ UNCHANGED keyterm_scores
       ELSE \E o \in Orders(all_terms(TermMaps(algo))) :
              /\ keyterm_scores' = KeytermScoresIn(o, TermMaps(algo), domain_terms)
              /\ ranked' = RankedList(keyterm_scores', top_n)
    /\ UNCHANGED <<input_text, top_n, algo, raw_text, domain_terms, ranked_again>>
    /\ UNCHANGED outsideScore

\* extract_all_keyterms on the same text and configuration in another
\* interpreter, whose sets have their own iteration order
ExtractAgain ==
    /\ kpc = "ran"
    /\ kpc' = "ran_again"
    /\ IF FirstRaising(algo) # 0
       THEN /\ ranked_again' = algo[Algorithms[FirstRaising(algo)]]
            /\ UNCHANGED keyterm_scores
       ELSE \E o \in Orders(all_terms(TermMaps(algo))) :
              /\ keyterm_scores' = KeytermScoresIn(o, TermMaps(algo), domain_terms)
              /\ ranked_again' = RankedList(keyterm_scores', top_n)
    /\ UNCHANGED <<input_text, top_n, algo, raw_text, domain_terms, ranked>>
    /\ UNCHANGED outsideScore

InitScore ==
    /\ input_text \in InputTexts
    /\ top_n \in 0..MaxTopN
    /\ algo \in AlgoOutcomes(_preprocess_text(input_text), top_n)
    /\ kpc = "new"
    /\ raw_text = <<>>
    /\ domain_terms = {}
    /\ keyterm_scores = <<>>
    /\ ranked = NoResult
    /\ ranked_again = NoResult
    /\ IngestIdle
    /\ BatchIdle
    /\ RelevanceIdle
    /\ TextIdle
    /\ ProcessorIdle
    /\ DocumentsIdle

NextScore ==
    \/ Construct
    \/ ExtractAllKeyterms
    \/ ExtractAgain

SpecScore == InitScore /\ [][NextScore]_vars

(***************************************************************************)
(* Properties of the domain relevance (checked under SpecRelevance).       *)
(***************************************************************************)
\* the domain relevance as C17 states it: the exact match ignores case
RelevanceIgnoringCase(term, dterms) ==
    IF \E d \in dterms : Lower(d) = Lower(term) THEN 100
    ELSE IF \E d \in dterms : IsSubstring(d, term) \/ IsSubstring(term, d) THEN 75
    ELSE IF \E word \in technical_words : IsSubstring(word, term) THEN 50
    ELSE 0

\* C17: the domain relevance of a term is 1.0 when it equals a vocabulary
\* entry ignoring case (entries of domain_specific_terms in any letter case
\* included), else 0.75 when it contains or is contained in an entry, else
\* 0.5 when it contains a generic technical keyword, else 0.0.
C17_RelevanceIgnoresCase ==
    rel_base.kind = "score" =>
        /\ rel_base.domain_relevance \in 0..100
        /\ rel_base.domain_relevance =
             RelevanceIgnoringCase(rel_term, DomainTerms(rel_extras))

\* v neither equals, contains nor is contained in the term
Unrelated(term, v) ==
    /\ term # v
    /\ ~IsSubstring(v, term)
    /\ ~IsSubstring(term, v)

\* C19: a term that neither equals, contains nor is contained in v has the
\* same KeytermScore (algorithm scores, domain relevance, combined score)
\* under a vocabulary and under that vocabulary with v added.
C19_UnrelatedTermsUnchanged ==
    ( /\ rel_base.kind = "score"
      /\ rel_plus.kind = "score"
      /\ Unrelated(rel_term, rel_added) )
    => rel_plus = rel_base

\* the term test scored with and without rust in the vocabulary, while a
\* term that contains rust would change
C19_Witness ==
    /\ rel_base.kind = "score"
    /\ rel_plus.kind = "score"
    /\ Unrelated(rel_term, rel_added)
    /\ rel_added \notin DomainTerms(rel_extras)
    /\ rel_base.combined_score > 0
    /\ _calculate_domain_relevance(<<"t", "r", "u", "s", "t">>,
                                   DomainTerms(rel_extras \cup {rel_added}))
         # _calculate_domain_relevance(<<"t", "r", "u", "s", "t">>,
                                       DomainTerms(rel_extras))

(***************************************************************************)
(* Properties of extract_all_keyterms (checked under SpecScore).           *)
(***************************************************************************)
Ran == kpc \in {"ran", "ran_again"}

\* the candidates of the latest run
Candidates == {keyterm_scores[k] : k \in 1..Len(keyterm_scores)}

\* x comes before y: greater composite score, or the same one and a smaller term
Before(x, y) ==
    \/ x.combined_score > y.combined_score
    \/ x.combined_score = y.combined_score /\ StrLess(x.term, y.term)

Items(r) == {r.items[k] : k \in 1..Len(r.items)}

\* C12: the returned list is sorted descending by composite score with
\* candidates of equal composite score in ascending order of their term, and
\* it is the first top_n elements of that total order of the candidates.
C12_SortedWithTermTieBreak ==
    (Ran /\ ranked.kind = "list") =>
        /\ \A i, j \in 1..Len(ranked.items) :
              i < j => Before(ranked.items[i], ranked.items[j])
        /\ Len(ranked.items) =
              (IF top_n < Cardinality(Candidates) THEN top_n ELSE Cardinality(Candidates))
        /\ \A x \in Items(ranked) : \A y \in Candidates \ Items(ranked) : Before(x, y)

\* C13: two runs on the same text and configuration return the same
\* ordered list, whatever the iteration order of the set of candidates.
C13_RunsAgree ==
    kpc = "ran_again" => ranked_again = ranked

Raising == {a \in DOMAIN algo : algo[a].kind = "raised"}

\* C14: when one of the algorithms raises, the run still completes and
\* returns a ranking; the error does not leave extract_all_keyterms.
C14_AlgorithmErrorContained ==
    (Ran /\ Cardinality(Raising) = 1) => ranked.kind = "list"

\* the value algorithm a returned for term t, 0 when it did not return t
ReturnedValue(a, t) ==
    IF t \in DOMAIN algo[a].map THEN algo[a].map[t] ELSE 0

\* C15: the candidates are exactly the terms returned by some algorithm, one
\* candidate per term, and each per-algorithm score of a candidate is the
\* value that algorithm returned for the very term, or 0 when it returned none.
C15_CandidatesAreUnion ==
    (Ran /\ ranked.kind = "list") =>
        /\ {x.term : x \in Candidates} = UNION {DOMAIN algo[a].map : a \in DOMAIN algo}
        /\ Len(keyterm_scores) = Cardinality({x.term : x \in Candidates})
        /\ \A x \in Candidates :
              /\ x.textrank_score = ReturnedValue("textrank", x.term)
              /\ x.sgrank_score = ReturnedValue("sgrank", x.term)
              /\ x.scake_score = ReturnedValue("scake", x.term)
              /\ x.yake_score = ReturnedValue("yake", x.term)
              /\ x.tfidf_score = ReturnedValue("tfidf", x.term)

\* 'data' only from textrank and 'data science' only from tfidf, both candidates
C15_Witness ==
    /\ Ran
    /\ ranked.kind = "list"
    /\ \E x, y \in Candidates :
          /\ x.term = <<"d", "a", "t", "a">>
          /\ y.term = <<"d", "a", "t", "a", " ", "s", "c", "i", "e", "n", "c", "e">>
          /\ x.textrank_score > 0 /\ x.tfidf_score = 0
          /\ y.textrank_score = 0 /\ y.tfidf_score > 0

C18_CompositeIsWeightedSum ==
    /\ weights.textrank + weights.sgrank + weights.scake + weights.yake
         + weights.tfidf + weights.domain = 100
    /\ \A r \in {ranked, ranked_again} :
          r.kind = "list" =>
              \A x \in Items(r) :
                  x.combined_score =
                      weights.textrank * x.textrank_score + weights.sgrank * x.sgrank_score
                      + weights.scake * x.scake_score + weights.yake * x.yake_score
                      + weights.tfidf * x.tfidf_score + weights.domain * x.domain_relevance

\* a returned candidate with algorithm scores and a domain relevance above 0
C18_Witness ==
    /\ Ran
    /\ ranked.kind = "list"
    /\ \E x \in Items(ranked) :
          /\ x.textrank_score > 0
          /\ x.tfidf_score > 0
          /\ x.domain_relevance = 75
          /\ x.combined_score = 20 * 50 + 15 * 50 + 15 * 75

\* C20: on the empty text, and on a text that preprocesses to the empty
\* string, the run returns the empty list and does not raise.
C20_EmptyTextGivesEmptyList ==
    (Ran /\ raw_text = <<>>) => ranked = [kind |-> "list", items |-> <<>>]

(***************************************************************************)
(* _preprocess_text as a function of its argument.                         *)
(***************************************************************************)
\* longest text given to _preprocess_text
MaxTextLen == 4

\* an upper-case and a lower-case letter, the space, a comma and the hyphen
PreprocessAlphabet == {"A", "b", " ", ",", "-"}

PreprocessTexts == UNION { [1..n -> PreprocessAlphabet] : n \in 0..MaxTextLen }

\* self.raw_text = self._preprocess_text(raw_text)
Preprocess ==
    /\ ppc = "text"
    /\ pre_once' = _preprocess_text(pre_text)
    /\ ppc' = "once"
    /\ UNCHANGED <<pre_text, pre_twice>>
    /\ UNCHANGED outsideText

\* _preprocess_text on a text it has returned
PreprocessAgain ==
    /\ ppc = "once"
    /\ pre_twice' = _preprocess_text(pre_once)
    /\ ppc' = "twice"
    /\ UNCHANGED <<pre_text, pre_once>>
    /\ UNCHANGED outsideText

InitPreprocess ==
    /\ pre_text \in PreprocessTexts
    /\ pre_once = <<>>
    /\ pre_twice = <<>>
    /\ ppc = "text"
    /\ IngestIdle
    /\ BatchIdle
    /\ RelevanceIdle
    /\ ScoreIdle
    /\ ProcessorIdle
    /\ DocumentsIdle

NextPreprocess ==
    \/ Preprocess
    \/ PreprocessAgain

SpecPreprocess == InitPreprocess /\ [][NextPreprocess]_vars

\* the hyphen at place i of t has a word character on both sides
InternalHyphen(t, i) ==
    /\ t[i] = "-"
    /\ 1 < i /\ i < Len(t)
    /\ IsWordChar(t[i - 1]) /\ IsWordChar(t[i + 1])

\* C26: the preprocessed text is lowercase, has no two consecutive
\* whitespace characters and no punctuation other than hyphens inside a
\* word, and preprocessing it once more leaves it unchanged.
C26_PreprocessNormalForm ==
    /\ ppc \in {"once", "twice"} =>
          /\ \A i \in 1..Len(pre_once) : ~InSeq(pre_once[i], UpperLetters)
          /\ \A i \in 1..(Len(pre_once) - 1) :
                ~(IsSpace(pre_once[i]) /\ IsSpace(pre_once[i + 1]))
          /\ \A i \in 1..Len(pre_once) :
                \/ IsWordChar(pre_once[i])
                \/ IsSpace(pre_once[i])
                \/ InternalHyphen(pre_once, i)
    /\ ppc = "twice" => pre_twice = pre_once

(***************************************************************************)
(* ResumeProcessor and JobDescriptionProcessor: paths, files on disk and   *)
(* process().                                                              *)
(***************************************************************************)
\* ProcessingConfig.input_directory and JobDescriptionConfig.input_directory
ResumeDir == <<"Data", "Resumes">>
JobDir == <<"Data", "JobDescription">>

InputDirectory(cls) == IF cls = "ResumeProcessor" THEN ResumeDir ELSE JobDir

\* the name of the i-th entry of a directory
FileNames == <<"f1", "f2", "f3", "f4">>

\* a path is the sequence of its parts, an absolute one starts with "/"
IsAbsolute(p) == p # <<>> /\ p[1] = "/"

\* pathlib: a / b
PathJoin(a, b) == IF IsAbsolute(b) THEN b ELSE a \o b

\* pathlib: p.parent and p.name
Parent(p) == SubSeq(p, 1, Len(p) - 1)
Name(p) == p[Len(p)]

NoDirectory == [exists |-> FALSE, is_dir |-> FALSE, files |-> <<>>]

DirOf(fs) == [exists |-> TRUE, is_dir |-> TRUE, files |-> fs]

\* the directory at path p of the disk dk
DirAt(dk, p) == IF p \in DOMAIN dk THEN dk[p] ELSE NoDirectory

MissingFile ==
    [ext |-> "pdf", exists |-> FALSE, readable |-> FALSE, size |-> max_file_size,
     header |-> "other", openable |-> FALSE, npages |-> 0, failing |-> {}]

\* the file at path p of the disk dk
FileAt(dk, p) ==
    LET d == DirAt(dk, Parent(p))
    IN IF d.exists /\ d.is_dir /\ \E i \in 1..Len(d.files) : FileNames[i] = Name(p)
       THEN d.files[CHOOSE i \in 1..Len(d.files) : FileNames[i] = Name(p)]
       ELSE MissingFile

\* _validate_pdf: input_file_name in get_pdf_files(input_file_name.parent),
\* False when get_pdf_files raises
_validate_pdf(p, dk) ==
    LET r == get_pdf_files(DirAt(dk, Parent(p)))
    IN /\ r.kind = "list"
       /\ \E k \in 1..Len(r.files) : FileNames[r.files[k]] = Name(p)

\* the methods each class defines
Methods(cls) ==
    IF cls = "ResumeProcessor"
    THEN {"__init__", "_create_directories", "_validate_pdf", "_create_backup",
          "_write_json_to_file", "_read_resumes", "_read_job_desc", "_write_json_file",
          "process", "batch_process", "get_processing_status"}
    ELSE {"__init__", "_create_directories", "_validate_pdf", "_read_job_desc",
          "_extract_job_metadata", "_extract_skills", "_extract_requirements",
          "_extract_qualifications", "process", "batch_process",
          "get_processing_status", "get_extracted_data"}

\* What a process() call meets outside the processor: whether the parser
\* returns, whether the backup file and the output file can be written.
Envs == [parse_ok : BOOLEAN, backup_ok : BOOLEAN, write_ok : BOOLEAN]

\* the message of the ValueError of _read_resumes / _read_job_desc
ParsingFailed(cls) ==
    IF cls = "ResumeProcessor" THEN "Resume parsing failed"
    ELSE "Job description parsing failed"

\* process() of a processor of class cls with configuration cfg on the
\* path p, at time `now`, on an instance whose attributes are inst: the
\* returned value, the attributes afterwards and what the call met.
process(cls, cfg, p, dk, env, now, inst) ==
    LET validated == _validate_pdf(p, dk)
        read_ok == PDFProcessingError \notin read_pdf(FileAt(dk, p), Name(p))
        met == [kind |-> "call", validated |-> validated, read_ok |-> read_ok,
                parse_ok |-> env.parse_ok, write_ok |-> env.write_ok]
        with_backup == IF cfg.create_backup /\ env.backup_ok
                       THEN inst.backups + 1 ELSE inst.backups
        failed(message, b) ==
            [ret |-> FALSE, processed_at |-> inst.processed_at, error_details |-> message,
             backups |-> b, outputs |-> inst.outputs, met |-> met]
    IN IF cfg.validate_pdf /\ ~validated
       THEN [ret |-> FALSE, processed_at |-> inst.processed_at,
             error_details |-> inst.error_details, backups |-> inst.backups,
             outputs |-> inst.outputs, met |-> met]
       ELSE IF ~read_ok \/ ~env.parse_ok
       THEN failed(ParsingFailed(cls), inst.backups)
       ELSE IF "_create_backup" \notin Methods(cls)
       THEN failed("object has no attribute '_create_backup'", inst.backups)
       ELSE IF "_write_json_file" \notin Methods(cls)
       THEN failed("object has no attribute '_write_json_file'", with_backup)
       ELSE IF ~env.write_ok
       THEN failed("Failed to write file", with_backup)
       ELSE [ret |-> TRUE, processed_at |-> <<now>>,
             error_details |-> inst.error_details, backups |-> with_backup,
             outputs |-> inst.outputs + 1, met |-> met]

\* get_processing_status: "success": bool(processed_at and not error_details)
get_processing_status(at, details) ==
    [kind |-> "dict", processed_at |-> at, error_details |-> details,
     success |-> (at # NoDatetime /\ details = None)]

(***************************************************************************)
(* One processor instance and the calls on it.                             *)
(***************************************************************************)
\* largest number of process() calls on one instance
MaxCalls == 2

\* The input directory at the time of a call, with at most the one file of
\* the processor in it (__init__ has created the directory).
ProcessorDirectories == {DirOf(<<>>)} \cup {DirOf(<<f>>) : f \in BatchFiles}

\* process() on the instance; the file on disk and what the call meets are
\* those of the moment of the call
Process ==
    /\ spc \in {"ready", "asked"}
    /\ Len(returned) < MaxCalls
    /\ \E d \in ProcessorDirectories, env \in Envs :
         LET o == process(proc_class, proc_config,
                          PathJoin(InputDirectory(proc_class), <<FileNames[1]>>),
                          (InputDirectory(proc_class) :> d), env, Len(returned) + 1,
                          [processed_at |-> processed_at, error_details |-> error_details,
                           backups |-> backups, outputs |-> outputs])
         IN /\ processed_at' = o.processed_at
            /\ error_details' = o.error_details
            /\ backups' = o.backups
            /\ outputs' = o.outputs
            /\ returned' = Append(returned, o.ret)
            /\ last_call' = o.met
    /\ spc' = "ready"
    /\ UNCHANGED <<proc_class, proc_config, status>>
    /\ UNCHANGED outsideProcessor

\* ResumeProcessor.get_processing_status()
GetProcessingStatus ==
    /\ spc = "ready"
    /\ proc_class = "ResumeProcessor"
    /\ status' = get_processing_status(processed_at, error_details)
    /\ spc' = "asked"
    /\ UNCHANGED <<proc_class, proc_config, processed_at, error_details, backups, outputs,
                   returned, last_call>>
    /\ UNCHANGED outsideProcessor

InitProcessor ==
    /\ proc_class \in {"ResumeProcessor", "JobDescriptionProcessor"}
    /\ proc_config \in [validate_pdf : BOOLEAN, create_backup : BOOLEAN]
    /\ processed_at = NoDatetime
    /\ error_details = None
    /\ backups = 0
    /\ outputs = 0
    /\ returned = <<>>
    /\ last_call = NoResult
    /\ status = NoResult
    /\ spc = "ready"
    /\ IngestIdle
    /\ BatchIdle
    /\ RelevanceIdle
    /\ ScoreIdle
    /\ TextIdle
    /\ DocumentsIdle

NextProcessor ==
    \/ Process
    \/ GetProcessingStatus

SpecProcessor == InitProcessor /\ [][NextProcessor]_vars

\* C28: after any sequence of process() calls on a ResumeProcessor, the
\* 'success' of get_processing_status() is True exactly when the latest
\* process() call returned True.
C28_SuccessIsLatestReturn ==
    (proc_class = "ResumeProcessor" /\ spc = "asked" /\ returned # <<>>) =>
        (status.success <=> returned[Len(returned)])

\* C29: when validation passes and reading, parsing and writing succeed,
\* process() of a JobDescriptionProcessor writes the output JSON, sets
\* processed_at and returns True.
C29_JobProcessReturnsTrue ==
    (/\ proc_class = "JobDescriptionProcessor"
     /\ returned # <<>>
     /\ proc_config.validate_pdf => last_call.validated
     /\ last_call.read_ok
     /\ last_call.parse_ok
     /\ last_call.write_ok) =>
        /\ returned[Len(returned)]
        /\ processed_at = <<Len(returned)>>
        /\ outputs >= 1

(***************************************************************************)
(* run_first.py: DocumentProcessor.process_all.                            *)
(***************************************************************************)
\* largest number of entries of an input directory
MaxDocs == 2

\* the entries of the input directories: a text file, a PDF file with
\* another header and a valid PDF of one page
DocFiles ==
    { f \in BatchFiles :
        /\ f.readable /\ f.size = max_file_size /\ f.failing = {}
        /\ (f.ext = "pdf" /\ f.header = "pdf") => (f.openable /\ f.npages = 1) }

DocSequences == UNION { [1..n -> DocFiles] : n \in 0..MaxDocs }

\* ProcessingConfig of run_first.py: the default, relative directories, or
\* the same directories given as absolute paths
DocConfigs ==
    { [input_resume_dir |-> ResumeDir, input_job_dir |-> JobDir],
      [input_resume_dir |-> <<"/">> \o ResumeDir, input_job_dir |-> <<"/">> \o JobDir] }

\* the disk after _setup_directories: both input directories exist
Disks(cfg) ==
    { (cfg.input_resume_dir :> DirOf(a)) @@ (cfg.input_job_dir :> DirOf(b)) :
        a \in DocSequences, b \in DocSequences }

\* processor_class(str(file_path)): the processor has its default configuration
DefaultConfig == [validate_pdf |-> TRUE, create_backup |-> TRUE]

\* the attributes of a processor after __init__
FreshInstance ==
    [processed_at |-> NoDatetime, error_details |-> None, backups |-> 0, outputs |-> 0]

\* what process() meets for a document of process_all
DocEnvs == [parse_ok : BOOLEAN, backup_ok : {TRUE}, write_ok : BOOLEAN]

ProcessorClass(doc_type) ==
    IF doc_type = "resume" THEN "ResumeProcessor" ELSE "JobDescriptionProcessor"

\* processor = processor_class(str(file_path)); processor.process() for the
\* i-th entry of input_dir
ProcessDocument(doc_type, input_dir, dk, i, env) ==
    LET cls == ProcessorClass(doc_type)
        file_path == input_dir \o <<FileNames[i]>>
        input_file_name == PathJoin(InputDirectory(cls), file_path)
    IN [type |-> doc_type, file |-> file_path,
        ret |-> process(cls, DefaultConfig, input_file_name, dk, env, i, FreshInstance).ret]

\* DocumentProcessor._process_documents: the returned value, the outcome of
\* every process() call and the messages logged
_process_documents(doc_type, input_dir, dk, envs) ==
    LET files == DirAt(dk, input_dir).files
        results == [i \in 1..Len(files) |->
                      ProcessDocument(doc_type, input_dir, dk, i, envs[i])]
    IN IF files = <<>>
       THEN [ret |-> FALSE, results |-> <<>>, log |-> <<"No documents found">>]
       ELSE [ret |-> TRUE, results |-> results,
             log |-> [i \in 1..Len(SelectSeq(results, LAMBDA r : ~r.ret)) |->
                        "Failed to process"]
                     \o <<"Completed processing">>]

\* resume_success = self._process_documents(DocumentType.RESUME, ...)
ProcessResumes ==
    /\ dpc = "start"
    /\ \E envs \in [1..Len(DirAt(disk, doc_config.input_resume_dir).files) -> DocEnvs] :
         LET o == _process_documents("resume", doc_config.input_resume_dir, disk, envs)
         IN /\ resume_success' = o.ret
            /\ doc_results' = doc_results \o o.results
            /\ doc_log' = doc_log \o o.log
    /\ dpc' = "resumes"
    /\ UNCHANGED <<doc_config, disk, job_desc_success, all_returned>>
    /\ UNCHANGED outsideDocuments

\* job_desc_success = self._process_documents(DocumentType.JOB_DESCRIPTION, ...)
ProcessJobDescriptions ==
    /\ dpc = "resumes"
    /\ \E envs \in [1..Len(DirAt(disk, doc_config.input_job_dir).files) -> DocEnvs] :
         LET o == _process_documents("job_description", doc_config.input_job_dir, disk, envs)
         IN /\ job_desc_success' = o.ret
            /\ doc_results' = doc_results \o o.results
            /\ doc_log' = doc_log \o o.log
    /\ dpc' = "job_descriptions"
    /\ UNCHANGED <<doc_config, disk, resume_success, all_returned>>
    /\ UNCHANGED outsideDocuments

\* if resume_success and job_desc_success: ... return True / return False
ReturnAll ==
    /\ dpc = "job_descriptions"
    /\ all_returned' = (resume_success /\ job_desc_success)
    /\ doc_log' = IF resume_success /\ job_desc_success
                  THEN Append(doc_log, "Successfully processed all documents")
                  ELSE doc_log
    /\ dpc' = "returned"
    /\ UNCHANGED <<doc_config, disk, doc_results, resume_success, job_desc_success>>
    /\ UNCHANGED outsideDocuments

InitDocuments ==
    /\ doc_config \in DocConfigs
    /\ disk \in Disks(doc_config)
    /\ dpc = "start"
    /\ doc_results = <<>>
    /\ resume_success = FALSE
    /\ job_desc_success = FALSE
    /\ all_returned = FALSE
    /\ doc_log = <<>>
    /\ IngestIdle
    /\ BatchIdle
    /\ RelevanceIdle
    /\ ScoreIdle
    /\ TextIdle
    /\ ProcessorIdle

NextDocuments ==
    \/ ProcessResumes
    \/ ProcessJobDescriptions
    \/ ReturnAll

SpecDocuments == InitDocuments /\ [][NextDocuments]_vars

\* C30: process_all returns True, and logs 'Successfully processed all
\* documents', only when the process() call of every resume and every job
\* description of the input directories returned True; and every document
\* of both directories is processed, whatever the others did.
C30_TrueOnlyWhenAllSucceeded ==
    dpc = "returned" =>
        /\ all_returned => \A k \in 1..Len(doc_results) : doc_results[k].ret
        /\ (\E k \in 1..Len(doc_log) : doc_log[k] = "Successfully processed all documents")
              => \A k \in 1..Len(doc_results) : doc_results[k].ret
        /\ Len(doc_results) = Len(DirAt(disk, doc_config.input_resume_dir).files)
                              + Len(DirAt(disk, doc_config.input_job_dir).files)

====
